---- MODULE Spec2Model ----
(***************************************************************************)
(* Model of src/app.py: the Streamlit script that extracts the text of an  *)
(* uploaded PDF/DOCX, summarises it, rewrites it as a report and           *)
(* highlights the summary sentences in the original document.              *)
(*                                                                         *)
(* Text is a sequence of one-character strings over {"a", "b", " "}.       *)
(* A document is a sequence of structural units (pages / paragraphs);      *)
(* a unit is [runs, annots]: its content runs [text, hl] in order and the  *)
(* highlight annotations it carries.  File bytes are [fmt, units]: the     *)
(* container format the bytes really are ("empty" is the zero-byte file)   *)
(* and the document they encode.                                           *)
(***************************************************************************)
EXTENDS Integers, Sequences, FiniteSets, TLC

VARIABLES
    installed,          \* nltk data directory: the resource paths present
    fetchLog,           \* per ensure_nltk_resources() call, the resources handed to nltk.download
    installedBefore,    \* nltk data directory when the last ensure_nltk_resources() began
    calls,              \* number of ensure_nltk_resources() calls in this process
    file,               \* uploaded_file: [ext, bytes], or NoFile
    scriptRuns,         \* script runs that processed an upload
    outcome,            \* "idle" | "ok" | "raised" : how the last script run ended
    raisedAt,           \* "none" | "extract" | "rewrite"
    summarizerCalled,   \* the last run reached summarizer(parser.document, sentence_count)
    summary_sentences,  \* what the summarizer returned in the last run
    processed_doc,      \* bytes offered for download, or NoBytes
    mime_type,          \* MIME type offered for download, or "none"
    handles,            \* in-memory handles/buffers the last run opened: [name, closed]
    searchLog,          \* searches of the last highlight pass: [fmt, sent, needle]
    added,              \* marks added by each pass so far (sequence, one entry per ok run)
    work,               \* OrderSpec: the units as highlighted in a permuted order
    permuted            \* OrderSpec: the permuted pass has run

vars == <<installed, fetchLog, installedBefore, calls, file, scriptRuns, outcome,
          raisedAt, summarizerCalled, summary_sentences, processed_doc, mime_type,
          handles, searchLog, added, work, permuted>>

----------------------------------------------------------------------------
\* Bounds of the model
MaxUnits == 2           \* structural units per document
MaxSents == 2           \* sentences the summarizer returns
MaxScriptRuns == 2      \* uploads processed in one behaviour
MaxCalls == 3           \* script reruns without an upload

\* Program constants
PdfPrefixLen == 60      \* str(sent)[:60]
DocxPrefixLen == 40     \* str(sent)[:40]
MinKeywordLen == 4      \* len(word) > 4

----------------------------------------------------------------------------
\* Text helpers
Rep(c, n) == [i \in 1..n |-> c]

Min(a, b) == IF a < b THEN a ELSE b

\* Python slice s[:n]
Prefix(s, n) == SubSeq(s, 1, Min(Len(s), n))

RECURSIVE Concat(_)
Concat(ss) == IF ss = <<>> THEN <<>> ELSE Head(ss) \o Concat(Tail(ss))

\* " ".join(parts)
RECURSIVE JoinSpace(_)
JoinSpace(parts) ==
    IF parts = <<>> THEN <<>>
    ELSE IF Len(parts) = 1 THEN parts[1]
    ELSE parts[1] \o <<" ">> \o JoinSpace(Tail(parts))

A41 == Rep("a", 41)
AB  == <<"a", "b">>

NoFile  == [ext |-> "none"]
NoBytes == [fmt |-> "none"]

----------------------------------------------------------------------------
\* Documents

Run(t, h) == [text |-> t, hl |-> h]

\* page.get_text() / para.text: the runs' text in order
UnitText(u) == Concat([i \in DOMAIN u.runs |-> u.runs[i].text])

\* " ".join([p.get_text() for p in doc]) / " ".join([p.text for p in doc.paragraphs])
FlatText(units) == JoinSpace([i \in DOMAIN units |-> UnitText(units[i])])

\* The run sequences a page / a paragraph of the model can have
PdfUnitShapes ==
    { <<>>, <<Run(A41, "none")>>,
      <<Run(A41, "none"), Run(A41, "none")>>,
      <<Run(AB, "none"), Run(AB, "none")>> }

DocxUnitShapes ==
    { <<Run(A41, "none")>>,
      <<Run(A41, "none"), Run(A41, "none")>>,
      <<Run(AB, "none"), Run(AB, "none")>>,
      <<Run(AB, "green")>>, <<Run(AB, "green"), Run(A41, "none")>> }

SeqsUpTo(S, lo, hi) == UNION { [1..n -> S] : n \in lo..hi }

FreshUnits(shapes) == { [runs |-> r, annots |-> <<>>] : r \in shapes }

\* A PDF has at least one page; a DOCX may have no paragraph at all.
PdfBytes  == { [fmt |-> "pdf",  units |-> us] : us \in SeqsUpTo(FreshUnits(PdfUnitShapes), 1, MaxUnits) }
DocxBytes == { [fmt |-> "docx", units |-> us] : us \in SeqsUpTo(FreshUnits(DocxUnitShapes), 0, MaxUnits) }
PptxBytes == { [fmt |-> "pptx", units |-> us] : us \in SeqsUpTo(FreshUnits(PdfUnitShapes), 1, 1) }
EmptyBytes == [fmt |-> "empty", units |-> <<>>]

\* The files the pipeline is run on: a file of the type its extension declares,
\* or a zero-byte file with that extension.  The dispatch of the pipeline has
\* a branch for every extension, so an extension other than pdf and docx
\* (pptx) is among them; the type list of the upload widget is a widget option.
Uploads ==
    { [ext |-> b.fmt, bytes |-> b] : b \in PdfBytes \cup DocxBytes \cup PptxBytes }
    \cup { [ext |-> e, bytes |-> EmptyBytes] : e \in {"pdf", "docx", "pptx"} }

\* Sentences the summarizer may return (str(sent) is never empty)
Sentences == { Rep("a", 60) \o <<"b">>, AB, <<"b", "a">> }

----------------------------------------------------------------------------
\* 1. NLTK resource management

Resources == {"punkt", "punkt_tab", "stopwords"}

\* nltk.data.find(f'tokenizers/{res}'): the path the check looks up
FindPath(res) == <<"tokenizers", res>>

\* nltk.download(res): where the downloader unpacks the package (punkt and
\* punkt_tab are tokenizers, stopwords is a corpus)
InstallPath(res) == <<IF res = "stopwords" THEN "corpora" ELSE "tokenizers", res>>

AllInstalled == { InstallPath(r) : r \in Resources }

\* The resources for which find() raises LookupError, hence nltk.download is called
ToFetch(inst) == { r \in Resources : FindPath(r) \notin inst }

\* ensure_nltk_resources(): ok is the set of downloads that succeed
\* (nltk.download returns False on a failed fetch, it does not raise)
ensure_nltk_resources(inst, ok) ==
    [ fetched   |-> ToFetch(inst),
      installed |-> inst \cup { InstallPath(r) : r \in ToFetch(inst) \cap ok } ]

----------------------------------------------------------------------------
\* 4. Keywords of systematic_rewrite

IsWordChar(c) == c # " "

\* re.findall(r'\w+', text.lower()): the maximal runs of word characters
\* (the alphabet is lower case, so lower() changes nothing)
WordStarts(text) ==
    { i \in 1..Len(text) :
        IsWordChar(text[i]) /\ (i = 1 \/ ~IsWordChar(text[i - 1])) }

WordEnd(text, i) ==
    CHOOSE j \in i..Len(text) :
        /\ j = Len(text) \/ ~IsWordChar(text[j + 1])
        /\ \A k \in i..j : IsWordChar(text[k])

Words(text) == { SubSeq(text, i, WordEnd(text, i)) : i \in WordStarts(text) }

\* top_keywords as a set: the words with len(word) > 4 (a document of the
\* model has fewer than 60 distinct words and fewer than 10 such words, so
\* most_common(60) and [:10] drop none)
top_keywords(text) == { w \in Words(text) : Len(w) > MinKeywordLen }

\* systematic_rewrite raises IndexError at top_keywords[0] when the list is empty
RewriteRaises(text) == top_keywords(text) = {}

----------------------------------------------------------------------------
\* Summarizer (external): an ordered list of sentences; the empty list for a
\* text without words (LsaSummarizer returns () for an empty dictionary)
Summaries(text) ==
    IF Words(text) = {} THEN { <<>> } ELSE SeqsUpTo(Sentences, 0, MaxSents)

----------------------------------------------------------------------------
\* 5. Highlighting

\* Seeded fault: the comparison stops one character short of the needle
MatchAt_IgnoreLast(text, needle, i) ==
    \A k \in 1..(Len(needle) - 1) : text[i + k - 1] = needle[k]

\* The needle at position i of the text
MatchAt(text, needle, i) ==
    \A k \in 1..Len(needle) : text[i + k - 1] = needle[k]

\* The needle occurs at some position from i on
HasHit(text, needle, i) ==
    \E p \in i..(Len(text) - Len(needle) + 1) : MatchAt(text, needle, p)

\* The first position from i on where the needle occurs
NextHit(text, needle, i) ==
    CHOOSE p \in i..(Len(text) - Len(needle) + 1) :
        /\ MatchAt(text, needle, p)
        /\ \A q \in i..(p - 1) : ~MatchAt(text, needle, q)

\* page.search_for(needle): one box per occurrence, scanning left to right
\* and resuming after each hit
RECURSIVE SearchFrom(_, _, _)
SearchFrom(text, needle, i) ==
    IF needle = <<>> \/ ~HasHit(text, needle, i) THEN <<>>
    ELSE LET p == NextHit(text, needle, i)
         IN  <<[x0 |-> p, x1 |-> p + Len(needle) - 1]>>
             \o SearchFrom(text, needle, p + Len(needle))

search_for(text, needle) == SearchFrom(text, needle, 1)

\* needle in para.text
InText(needle, text) ==
    \E i \in 1..(Len(text) - Len(needle) + 1) : MatchAt(text, needle, i)

\* Seeded fault: the PDF pass truncates like the DOCX pass
PdfNeedle_Trunc40(sent) == Prefix(sent, DocxPrefixLen)

PdfNeedle(sent) == Prefix(sent, PdfPrefixLen)

DocxNeedle(sent) == Prefix(sent, DocxPrefixLen)

Needle(fmt, sent) == IF fmt = "pdf" THEN PdfNeedle(sent) ELSE DocxNeedle(sent)

\* Seeded fault: a box that is already annotated is skipped
AddHighlightAnnots_Dedup(annots, text_instances) ==
    annots \o SelectSeq([k \in DOMAIN text_instances |->
                            [rect |-> text_instances[k], color |-> "yellow"]],
                        LAMBDA a : \A i \in DOMAIN annots : annots[i].rect # a.rect)

\* for inst in text_instances: page.add_highlight_annot(inst); set_colors; update
AddHighlightAnnots(annots, text_instances) ==
    annots \o [k \in DOMAIN text_instances |->
                  [rect |-> text_instances[k], color |-> "yellow"]]

\* Seeded fault: only the first run of the paragraph is flagged
HighlightRuns_FirstOnly(runs) ==
    [r \in DOMAIN runs |-> IF r = 1 THEN [runs[r] EXCEPT !.hl = "yellow"] ELSE runs[r]]

\* Seeded fault: the paragraph is rewritten as one highlighted run
HighlightRuns_Merge(runs) ==
    IF runs = <<>> THEN runs
    ELSE <<[text |-> Concat([r \in DOMAIN runs |-> runs[r].text]), hl |-> "yellow"]>>

\* for run in para.runs: run.font.highlight_color = WD_COLOR_INDEX.YELLOW
HighlightRuns(runs) == [r \in DOMAIN runs |-> [runs[r] EXCEPT !.hl = "yellow"]]

\* Seeded fault: a paragraph that does not match has its highlight cleared
HighlightPair_ClearOnMiss(fmt, units, u, sent) ==
    IF fmt = "pdf"
    THEN [units EXCEPT ![u].annots =
             @ \o [k \in DOMAIN search_for(UnitText(units[u]), Prefix(sent, PdfPrefixLen)) |->
                     [rect |-> search_for(UnitText(units[u]), Prefix(sent, PdfPrefixLen))[k],
                      color |-> "yellow"]]]
    ELSE [units EXCEPT ![u].runs =
             [r \in DOMAIN @ |->
                 [@[r] EXCEPT !.hl =
                     IF \E i \in 1..(Len(UnitText(units[u])) - Len(Prefix(sent, DocxPrefixLen)) + 1) :
                            SubSeq(UnitText(units[u]), i, i + Len(Prefix(sent, DocxPrefixLen)) - 1)
                                = Prefix(sent, DocxPrefixLen)
                     THEN "yellow" ELSE "none"]]]

\* The body of the double loop for one (unit, sentence) pair
HighlightPair(fmt, units, u, sent) ==
    IF fmt = "pdf"
    THEN [units EXCEPT ![u].annots =
             AddHighlightAnnots(@, search_for(UnitText(units[u]), PdfNeedle(sent)))]
    ELSE IF InText(DocxNeedle(sent), UnitText(units[u]))
         THEN [units EXCEPT ![u].runs = HighlightRuns(@)]
         ELSE units

RECURSIVE HighlightInOrder(_, _, _, _)
HighlightInOrder(fmt, units, sents, order) ==
    IF order = <<>> THEN units
    ELSE HighlightInOrder(fmt,
             HighlightPair(fmt, units, Head(order)[1], sents[Head(order)[2]]),
             sents, Tail(order))

\* for page in doc: for sent in key_sentences: the pairs in the code's order
CodeOrder(nUnits, nSents) ==
    [i \in 1..(nUnits * nSents) |->
        <<((i - 1) \div nSents) + 1, ((i - 1) % nSents) + 1>>]

\* highlight_pdf_content / highlight_docx_content: open, double loop, save
HighlightContent(fmt, file_bytes, key_sentences) ==
    [fmt   |-> fmt,
     units |-> HighlightInOrder(fmt, file_bytes.units, key_sentences,
                                CodeOrder(Len(file_bytes.units), Len(key_sentences)))]

highlight_pdf_content(file_bytes, key_sentences) ==
    HighlightContent("pdf", file_bytes, key_sentences)

highlight_docx_content(file_bytes, key_sentences) ==
    HighlightContent("docx", file_bytes, key_sentences)

\* The searches a pass performs: every sentence against every unit
Searches(fmt, units, sents) ==
    { [fmt |-> fmt, sent |-> sents[k], needle |-> Needle(fmt, sents[k])] :
        k \in { j \in DOMAIN sents : units # <<>> } }

YellowRuns(u) == { r \in DOMAIN u.runs : u.runs[r].hl = "yellow" }

\* Number of marks a document carries
RECURSIVE MarkCount(_)
MarkCount(units) ==
    IF units = <<>> THEN 0
    ELSE Len(Head(units).annots) + Cardinality(YellowRuns(Head(units)))
         + MarkCount(Tail(units))

----------------------------------------------------------------------------
\* 7. Main application logic: one run of the script on an uploaded file

Handle(n, c) == [name |-> n, closed |-> c]

\* A. Text extraction.  fitz.open is used as a context manager and closes
\* its document; the io.BytesIO given to Document() is never closed.
\* Opening bytes that are not of the declared format raises.
Extraction(f) ==
    IF f.ext = "pdf"
    THEN IF f.bytes.fmt = "pdf"
         THEN [ok |-> TRUE, raw_text |-> FlatText(f.bytes.units),
               handles |-> { Handle("extract_pdf_doc", TRUE) }]
         ELSE [ok |-> FALSE, raw_text |-> <<>>, handles |-> {}]
    ELSE IF f.ext = "docx"
    THEN IF f.bytes.fmt = "docx"
         THEN [ok |-> TRUE, raw_text |-> FlatText(f.bytes.units),
               handles |-> { Handle("extract_docx_stream", FALSE) }]
         ELSE [ok |-> FALSE, raw_text |-> <<>>,
               handles |-> { Handle("extract_docx_stream", FALSE) }]
    ELSE [ok |-> TRUE, raw_text |-> <<>>, handles |-> {}]

\* D. Document highlighting: processed_doc, mime_type and the handles the
\* highlighter opens (the document and the output buffer; neither is closed)
Highlighting(f, sents) ==
    IF f.ext = "pdf"
    THEN [processed_doc |-> highlight_pdf_content(f.bytes, sents),
          mime_type |-> "application/pdf",
          handles |-> { Handle("highlight_pdf_doc", FALSE),
                        Handle("highlight_pdf_out", FALSE) }]
    ELSE IF f.ext = "docx"
    THEN [processed_doc |-> highlight_docx_content(f.bytes, sents),
          mime_type |-> "application/vnd.openxmlformats-officedocument.wordprocessingml.document",
          handles |-> { Handle("highlight_docx_stream", FALSE),
                        Handle("highlight_docx_out", FALSE) }]
    ELSE [processed_doc |-> f.bytes,
          mime_type |-> "application/octet-stream",
          handles |-> {}]

\* The sentence lists the summarizer can return in a run on f
SummaryChoices(f) ==
    IF Extraction(f).ok THEN Summaries(Extraction(f).raw_text) ELSE { <<>> }

\* The whole script run on upload f: ensure_nltk_resources(), then A-D.
\* ok: the downloads that succeed; sents: what the summarizer returns.
ScriptRun(f, ok, sents) ==
    LET nltk == ensure_nltk_resources(installed, ok)
        ex   == Extraction(f)
        hi   == Highlighting(f, sents)
    IN  /\ installedBefore' = installed
        /\ installed' = nltk.installed
        /\ fetchLog' = Append(fetchLog, nltk.fetched)
        /\ calls' = calls + 1
        /\ file' = f
        /\ scriptRuns' = scriptRuns + 1
        /\ UNCHANGED <<work, permuted>>
        /\ IF ~ex.ok
           THEN /\ outcome' = "raised"
                /\ raisedAt' = "extract"
                /\ summarizerCalled' = FALSE
                /\ summary_sentences' = <<>>
                /\ processed_doc' = NoBytes
                /\ mime_type' = "none"
                /\ handles' = ex.handles
                /\ searchLog' = {}
                /\ UNCHANGED added
           ELSE IF RewriteRaises(ex.raw_text)
           THEN /\ outcome' = "raised"
                /\ raisedAt' = "rewrite"
                /\ summarizerCalled' = TRUE
                /\ summary_sentences' = sents
                /\ processed_doc' = NoBytes
                /\ mime_type' = "none"
                /\ handles' = ex.handles
                /\ searchLog' = {}
                /\ UNCHANGED added
           ELSE /\ outcome' = "ok"
                /\ raisedAt' = "none"
                /\ summarizerCalled' = TRUE
                /\ summary_sentences' = sents
                /\ processed_doc' = hi.processed_doc
                /\ mime_type' = hi.mime_type
                /\ handles' = ex.handles \cup hi.handles
                /\ searchLog' = Searches(f.ext, f.bytes.units, sents)
                /\ added' = Append(added, MarkCount(processed_doc'.units)
                                          - MarkCount(f.bytes.units))

\* The user uploads the file chosen at the start
FirstRun ==
    /\ file # NoFile
    /\ scriptRuns = 0
    /\ \E ok \in SUBSET ToFetch(installed) :
         \E sents \in SummaryChoices(file) : ScriptRun(file, ok, sents)

\* The user downloads the highlighted document and uploads it again.  Its
\* text is the text of the first upload, and the summarizer is deterministic,
\* so it returns the same sentences.
ReuploadOutput ==
    /\ outcome = "ok"
    /\ scriptRuns >= 1
    /\ scriptRuns < MaxScriptRuns
    /\ \E ok \in SUBSET ToFetch(installed) :
         ScriptRun([ext |-> file.ext, bytes |-> processed_doc], ok, summary_sentences)

\* A rerun of the script with no file uploaded: ensure_nltk_resources() runs,
\* the else branch shows the "Please upload" notice
RerunNoUpload ==
    /\ file = NoFile
    /\ calls < MaxCalls
    /\ \E ok \in SUBSET ToFetch(installed) :
         LET nltk == ensure_nltk_resources(installed, ok)
         IN  /\ installedBefore' = installed
             /\ installed' = nltk.installed
             /\ fetchLog' = Append(fetchLog, nltk.fetched)
             /\ calls' = calls + 1
    /\ outcome' = "idle"
    /\ UNCHANGED <<file, scriptRuns, raisedAt, summarizerCalled, summary_sentences,
                   processed_doc, mime_type, handles, searchLog, added, work, permuted>>

----------------------------------------------------------------------------
\* Specifications

InitCommon ==
    /\ fetchLog = <<>>
    /\ installedBefore = {}
    /\ calls = 0
    /\ scriptRuns = 0
    /\ outcome = "idle"
    /\ raisedAt = "none"
    /\ summarizerCalled = FALSE
    /\ summary_sentences = <<>>
    /\ processed_doc = NoBytes
    /\ mime_type = "none"
    /\ handles = {}
    /\ searchLog = {}
    /\ added = <<>>
    /\ work = <<>>
    /\ permuted = FALSE

\* The request pipeline on a provisioned host
Init ==
    /\ InitCommon
    /\ installed = AllInstalled
    /\ file \in Uploads

Next == FirstRun \/ ReuploadOutput

Spec == Init /\ [][Next]_vars

\* Provisioning: script reruns on a host with any part of the data present
NltkInit ==
    /\ InitCommon
    /\ installed \in SUBSET AllInstalled
    /\ file = NoFile

NltkNext == RerunNoUpload

NltkSpec == NltkInit /\ [][NltkNext]_vars

\* Order independence of a highlight pass: the same pass with the units and
\* the sentence list taken in any order, next to the pass in the code's order
Perms(n) == { f \in [1..n -> 1..n] : \A i, j \in 1..n : i # j => f[i] # f[j] }

PermOrder(ups, sps) ==
    [i \in 1..(Len(ups) * Len(sps)) |->
        <<ups[((i - 1) \div Len(sps)) + 1], sps[((i - 1) % Len(sps)) + 1]>>]

OrderUnitShapes ==
    { <<Run(AB, "green"), Run(A41, "none")>>,
      <<Run(AB, "none"), Run(AB, "none")>> }

OrderUploads ==
    { [ext |-> e, bytes |-> [fmt |-> e, units |-> us]] :
        e \in {"pdf", "docx"},
        us \in SeqsUpTo(FreshUnits(OrderUnitShapes), 1, MaxUnits) }

PermutedPass ==
    /\ ~permuted
    /\ \E ups \in Perms(Len(file.bytes.units)), sps \in Perms(Len(summary_sentences)) :
         work' = HighlightInOrder(file.ext, file.bytes.units, summary_sentences,
                                  PermOrder(ups, sps))
    /\ processed_doc' = HighlightContent(file.ext, file.bytes, summary_sentences)
    /\ permuted' = TRUE
    /\ outcome' = "ok"
    /\ UNCHANGED <<installed, fetchLog, installedBefore, calls, file, scriptRuns,
                   raisedAt, summarizerCalled, summary_sentences, mime_type,
                   handles, searchLog, added>>

OrderInit ==
    /\ installed = AllInstalled
    /\ fetchLog = <<>>
    /\ installedBefore = {}
    /\ calls = 0
    /\ scriptRuns = 0
    /\ outcome = "idle"
    /\ raisedAt = "none"
    /\ summarizerCalled = FALSE
    /\ processed_doc = NoBytes
    /\ mime_type = "none"
    /\ handles = {}
    /\ searchLog = {}
    /\ added = <<>>
    /\ work = <<>>
    /\ permuted = FALSE
    /\ file \in OrderUploads
    /\ summary_sentences \in SeqsUpTo(Sentences, 0, MaxSents)

OrderNext == PermutedPass

OrderSpec == OrderInit /\ [][OrderNext]_vars

----------------------------------------------------------------------------
\* Vocabulary of the properties

\* needle occurs in text as a contiguous substring
Occurs(needle, text) ==
    \E i \in 1..(Len(text) - Len(needle) + 1) :
        SubSeq(text, i, i + Len(needle) - 1) = needle

RanOn(exts) == scriptRuns >= 1 /\ file.ext \in exts

Passed(exts) == RanOn(exts) /\ outcome = "ok"

InUnits  == file.bytes.units
OutUnits == processed_doc.units

\* The upload is of a supported type and has no text: a zero-byte file, or a
\* document whose extracted text has no word
BlankUpload ==
    /\ RanOn({"pdf", "docx"})
    /\ \/ file.bytes = EmptyBytes
       \/ Extraction(file).ok /\ Words(Extraction(file).raw_text) = {}

NoPrefixAnywhere ==
    \A p \in DOMAIN InUnits : \A k \in DOMAIN summary_sentences :
        ~Occurs(Needle(file.ext, summary_sentences[k]), UnitText(InUnits[p]))

ParagraphMatched(p) ==
    \E k \in DOMAIN summary_sentences :
        Occurs(Prefix(summary_sentences[k], 40), UnitText(InUnits[p]))

\* (sentence index, hit index) of every box the page search returns on page p
PageHits(p) ==
    UNION { { <<k, j>> : j \in DOMAIN search_for(UnitText(InUnits[p]),
                                                Prefix(summary_sentences[k], 60)) } :
            k \in DOMAIN summary_sentences }

HitRect(p, h) ==
    search_for(UnitText(InUnits[p]), Prefix(summary_sentences[h[1]], 60))[h[2]]

CountRect(annots, r) == Cardinality({ i \in DOMAIN annots : annots[i].rect = r })

Range(sq) == { sq[i] : i \in DOMAIN sq }

\* The marks of a document: per unit, the annotations as a multiset and the
\* highlight of every run
MarksOf(units) ==
    [p \in DOMAIN units |->
        [annots |-> [a \in Range(units[p].annots) |->
                        Cardinality({ i \in DOMAIN units[p].annots : units[p].annots[i] = a })],
         hl     |-> [r \in DOMAIN units[p].runs |-> units[p].runs[r].hl]]]

----------------------------------------------------------------------------
\* Properties

\* C1: when the extracted text is blank (a zero-byte pdf, a document with no
\* text) the run does not call the summarizer, ends without raising and
\* returns the input document unchanged.
C1_BlankTextSkipsSummarizer ==
    BlankUpload =>
        /\ outcome = "ok"
        /\ ~summarizerCalled
        /\ summary_sentences = <<>>
        /\ processed_doc = file.bytes

C3_OneLengthForAllFormats ==
    \A e \in searchLog :
        /\ e.needle = PdfNeedle(e.sent)
        /\ e.needle = DocxNeedle(e.sent)

\* C3 (amended): every searched needle is the sentence's prefix of a fixed
\* length per format, 60 in a PDF pass and 40 in a DOCX pass, the same for
\* every sentence, unit and pass of that format.
C3_PrefixLengthPerFormat ==
    \A e \in searchLog :
        /\ e.fmt = file.ext
        /\ e.needle = SubSeq(e.sent, 1, Min(Len(e.sent), IF e.fmt = "pdf" THEN 60 ELSE 40))

C3_Witness ==
    /\ Passed({"pdf"})
    /\ scriptRuns = 2
    /\ \E e \in searchLog : Len(e.sent) > 60 /\ Len(e.needle) = 60

\* C4: if no sentence's prefix occurs in any unit, the pass adds no annotation
\* and flags no run, and the run does not raise in the highlighter.
C4_NoMatchNoMark ==
    (Passed({"pdf", "docx"}) /\ NoPrefixAnywhere) => OutUnits = InUnits

C4_Witness ==
    /\ Passed({"pdf", "docx"})
    /\ NoPrefixAnywhere
    /\ summary_sentences # <<>>
    /\ \E p \in DOMAIN InUnits : InUnits[p].runs # <<>>

\* C5: after highlight_docx_content every run of a paragraph whose text
\* contains the 40-character prefix of some sentence is yellow, and no run of
\* any other paragraph has its highlight changed.
C5_ParagraphRuns ==
    Passed({"docx"}) =>
        \A p \in DOMAIN InUnits :
            IF ParagraphMatched(p)
            THEN \A r \in DOMAIN OutUnits[p].runs : OutUnits[p].runs[r].hl = "yellow"
            ELSE OutUnits[p].runs = InUnits[p].runs

C5_Witness ==
    /\ Passed({"docx"})
    /\ \E p \in DOMAIN InUnits :
         ParagraphMatched(p) /\ Len(InUnits[p].runs) = 2 /\ InUnits[p].runs[1].hl = "green"
    /\ \E p \in DOMAIN InUnits :
         ~ParagraphMatched(p) /\ InUnits[p].runs # <<>> /\ InUnits[p].runs[1].hl = "green"

\* C6: highlight_pdf_content keeps every annotation the page had and appends
\* exactly one yellow annotation per (page, sentence, box) the search returns,
\* duplicates included; a second pass on its own output adds as many again.
C6_OneAnnotationPerHit ==
    Passed({"pdf"}) =>
        /\ \A p \in DOMAIN InUnits :
             LET before == InUnits[p].annots
                 after  == OutUnits[p].annots
             IN  /\ Len(after) = Len(before) + Cardinality(PageHits(p))
                 /\ SubSeq(after, 1, Len(before)) = before
                 /\ \A i \in (Len(before) + 1)..Len(after) : after[i].color = "yellow"
                 /\ \A r \in { a.rect : a \in Range(after) } :
                      CountRect(after, r) =
                          CountRect(before, r)
                          + Cardinality({ h \in PageHits(p) : HitRect(p, h) = r })
        /\ Len(added) >= 2 => added[Len(added)] = added[Len(added) - 1]

C6_Witness ==
    /\ Passed({"pdf"})
    /\ scriptRuns = 2
    /\ added[2] >= 2
    /\ \E p \in DOMAIN InUnits : InUnits[p].annots # <<>>

\* C7: a highlight pass leaves the text alone: same units, same runs in the
\* same order, same text in every run, hence the same extracted text.
C7_TextUnchanged ==
    Passed({"pdf", "docx"}) =>
        /\ Len(OutUnits) = Len(InUnits)
        /\ \A p \in DOMAIN InUnits :
             /\ Len(OutUnits[p].runs) = Len(InUnits[p].runs)
             /\ \A r \in DOMAIN InUnits[p].runs :
                  OutUnits[p].runs[r].text = InUnits[p].runs[r].text
        /\ FlatText(OutUnits) = FlatText(InUnits)

C7_Witness ==
    /\ Passed({"pdf", "docx"})
    /\ OutUnits # InUnits
    /\ \E p \in DOMAIN InUnits : Len(InUnits[p].runs) = 2

\* C8: every handle and buffer a run opened is closed when the run ends.
C8_AllHandlesClosed ==
    scriptRuns >= 1 => \A h \in handles : h.closed

\* C9: ensure_nltk_resources fetches a resource only when it is absent, so a
\* call made with punkt, punkt_tab and stopwords all installed fetches nothing.
C9_FetchOnlyWhenAbsent ==
    calls >= 1 =>
        /\ \A r \in fetchLog[Len(fetchLog)] : InstallPath(r) \notin installedBefore
        /\ AllInstalled \subseteq installedBefore => fetchLog[Len(fetchLog)] = {}

\* C10: the marks of a pass do not depend on the order in which the units and
\* the sentences are taken: any permuted pass leaves the marks of the pass in
\* the code's order.
C10_OrderIndependent ==
    permuted => MarksOf(work) = MarksOf(OutUnits)

C10_Witness ==
    /\ permuted
    /\ Len(InUnits) = 2
    /\ Len(summary_sentences) = 2
    /\ summary_sentences[1] # summary_sentences[2]
    /\ work # InUnits
    /\ work # OutUnits

====
